---- MODULE Spec2Model ----
(***************************************************************************)
(* Product catalog API (app/backend): the in-memory catalog, the           *)
(* GET /api/products and GET /health handlers, and the structured logging  *)
(* they write through.                                                     *)
(*                                                                         *)
(* Money is held as a whole number of cents: Decimal("29.99") is 2999.     *)
(* An optional query parameter is a set with at most one element: {} when  *)
(* the parameter is absent from the URL, {v} when it is given as v.        *)
(***************************************************************************)
EXTENDS Integers, Sequences, FiniteSets, TLC

VARIABLES
    _PRODUCTS_DATABASE,   \* services/product_service.py: the module-level list
    root_logger,          \* logging.getLogger(): its level and its handlers
    request,              \* the request served last: endpoint and query string
    response,             \* the response to it: status code and JSON body
    stdout,               \* the lines the last step wrote to sys.stdout
    test_client,          \* tests/conftest.py: the requests a test is about to
                          \* send, in order, and the responses it has got back
    in_flight             \* the calls of get_products under way when requests
                          \* are handled side by side: per call, the line it
                          \* has reached and what it has logged and returned

vars == <<_PRODUCTS_DATABASE, root_logger, request, response, stdout,
          test_client, in_flight>>

(***************************************************************************)
(* Bounds                                                                  *)
(***************************************************************************)
\* setup_logging is called at most this many times in a run (import included)
MaxSetupCalls == 2

\* at most this many other requests are served between a request and its
\* repetition
MaxBetween == 2

\* at most this many requests are handled side by side
MaxConcurrent == 2

(***************************************************************************)
(* models/product.py                                                       *)
(***************************************************************************)
ProductCategory == {"electronics", "clothing", "home", "sports", "books"}

\* a variant of Product with a defect: identifiers count from zero
Product_id_from_zero(id, name, description, price_cents, category, in_stock) ==
    [product_id          |-> id - 1,
     product_name        |-> name,
     product_description |-> description,
     product_price_usd   |-> price_cents,
     product_category    |-> category,
     product_in_stock    |-> in_stock]

Product(id, name, description, price_cents, category, in_stock) ==
    [product_id          |-> id,
     product_name        |-> name,
     product_description |-> description,
     product_price_usd   |-> price_cents,
     product_category    |-> category,
     product_in_stock    |-> in_stock]

ProductListResponse(products, count) ==
    [products |-> products, total_count |-> count]

(***************************************************************************)
(* data/seed_products.py                                                   *)
(***************************************************************************)
get_seed_products ==
    <<
    Product(1, "Wireless Bluetooth Mouse",
            "Ergonomic wireless mouse with 2.4GHz USB receiver and long-lasting battery life",
            2999, "electronics", TRUE),
    Product(2, "Mechanical Gaming Keyboard",
            "RGB backlit mechanical keyboard with blue switches and programmable macros",
            8999, "electronics", TRUE),
    Product(3, "USB-C Hub 7-in-1",
            "Multi-port USB-C hub with HDMI, SD card reader, and 100W power delivery",
            4599, "electronics", TRUE),
    Product(4, "Wireless Earbuds Pro",
            "Active noise cancelling wireless earbuds with 30-hour battery life and charging case",
            14999, "electronics", FALSE),
    Product(5, "4K Webcam",
            "Ultra HD 4K webcam with autofocus, ring light, and dual microphones",
            11999, "electronics", TRUE),
    Product(6, "Portable SSD 1TB",
            "Ultra-fast portable solid state drive with USB 3.2 Gen 2 speeds up to 1050MB/s",
            12999, "electronics", TRUE),
    Product(7, "Smart LED Light Bulb",
            "WiFi-enabled color-changing LED bulb compatible with Alexa and Google Home",
            1999, "electronics", TRUE),
    Product(8, "Wireless Charger Stand",
            "15W fast wireless charging stand with adjustable viewing angle for smartphones",
            3499, "electronics", TRUE),
    Product(9, "Classic Cotton T-Shirt",
            "100% organic cotton crew neck t-shirt available in multiple colors",
            2499, "clothing", TRUE),
    Product(10, "Slim Fit Denim Jeans",
            "Stretch denim jeans with modern slim fit and classic 5-pocket styling",
            5999, "clothing", TRUE),
    Product(11, "Hooded Zip Sweatshirt",
            "Comfortable fleece-lined hoodie with full zip and kangaroo pockets",
            4499, "clothing", TRUE),
    Product(12, "Running Jacket Windbreaker",
            "Lightweight water-resistant windbreaker with reflective details for running",
            6999, "clothing", FALSE),
    Product(13, "Merino Wool Beanie",
            "Soft merino wool winter beanie hat with fold-over cuff design",
            2999, "clothing", TRUE),
    Product(14, "Canvas Sneakers",
            "Classic low-top canvas sneakers with rubber sole and cushioned insole",
            5499, "clothing", TRUE),
    Product(15, "Leather Crossbody Bag",
            "Genuine leather crossbody bag with adjustable strap and multiple compartments",
            8999, "clothing", TRUE),
    Product(16, "Stainless Steel French Press",
            "34oz double-wall insulated French press coffee maker with heat-resistant handle",
            3999, "home", TRUE),
    Product(17, "Ceramic Non-Stick Frying Pan",
            "10-inch ceramic-coated frying pan with ergonomic handle and even heat distribution",
            4999, "home", TRUE),
    Product(18, "Memory Foam Pillow Set",
            "Set of 2 bamboo-covered memory foam pillows with adjustable fill for custom comfort",
            7999, "home", TRUE),
    Product(19, "Smart Robot Vacuum",
            "App-controlled robot vacuum with auto-recharge and scheduled cleaning features",
            29999, "home", FALSE),
    Product(20, "Bamboo Cutting Board Set",
            "Set of 3 bamboo cutting boards with juice grooves and non-slip feet",
            3499, "home", TRUE),
    Product(21, "Aromatherapy Essential Oil Diffuser",
            "Ultrasonic essential oil diffuser with 7 LED light colors and auto shut-off",
            2999, "home", TRUE),
    Product(22, "Weighted Blanket 15lbs",
            "Premium weighted blanket with glass beads and soft breathable cotton cover",
            8999, "home", TRUE),
    Product(23, "Yoga Mat with Carrying Strap",
            "6mm thick non-slip yoga mat with alignment marks and free carrying strap",
            3999, "sports", TRUE),
    Product(24, "Adjustable Dumbbell Set",
            "Pair of adjustable dumbbells from 5-52.5 lbs with quick-change dial system",
            49999, "sports", TRUE),
    Product(25, "Resistance Bands Set",
            "Set of 5 resistance bands with handles, door anchor, and carrying bag",
            2499, "sports", TRUE),
    Product(26, "Foam Roller for Muscle Recovery",
            "High-density foam roller for deep tissue massage and muscle recovery",
            2999, "sports", TRUE),
    Product(27, "Sports Water Bottle 32oz",
            "Insulated stainless steel water bottle keeps drinks cold for 24 hours",
            3499, "sports", FALSE),
    Product(28, "The Pragmatic Programmer",
            "Classic software development book with timeless programming wisdom and best practices",
            4499, "books", TRUE),
    Product(29, "Atomic Habits",
            "Science-backed strategies for building good habits and breaking bad ones",
            1699, "books", TRUE),
    Product(30, "The Design of Everyday Things",
            "Foundational book on user-centered design and human-computer interaction",
            2499, "books", TRUE)
    >>

(***************************************************************************)
(* core/logging_config.py                                                  *)
(***************************************************************************)
\* the numeric values getattr(logging, log_level.upper()) resolves to
LogLevel ==
    [name \in {"DEBUG", "INFO", "WARNING", "ERROR", "CRITICAL"} |->
        CASE name = "DEBUG"    -> 10
          [] name = "INFO"     -> 20
          [] name = "WARNING"  -> 30
          [] name = "ERROR"    -> 40
          [] name = "CRITICAL" -> 50]

LevelName(levelno) ==
    CHOOSE name \in DOMAIN LogLevel : LogLevel[name] = levelno

\* logging.StreamHandler(sys.stdout): a new handler has level NOTSET
StreamHandler == [stream |-> "stdout", level |-> 0]

\* JsonFormatter.format: the JSON object of one record (the timestamp, which
\* is the wall clock, is left out)
JsonFormatter(levelno, logger_name, message, extra_fields) ==
    [level        |-> LevelName(levelno),
     logger_name  |-> logger_name,
     message      |-> message,
     extra_fields |-> extra_fields]

\* setup_logging(log_level): the root logger afterwards
setup_logging(log_level) ==
    [level     |-> LogLevel[log_level],
     handlers  |-> Append(root_logger.handlers, StreamHandler),
     propagate |-> FALSE]

\* StructuredLogger._log: makeRecord, then Logger.handle(record), which hands
\* the record to every handler found on the way up to the root whose own
\* level admits it.  The module loggers have no handler of their own.
\* The result is the lines written to stdout.
RECURSIVE callHandlers(_, _, _)
callHandlers(handlers, levelno, line) ==
    IF handlers = <<>> THEN <<>>
    ELSE (IF levelno >= Head(handlers).level THEN <<line>> ELSE <<>>)
         \o callHandlers(Tail(handlers), levelno, line)

_log(logger_name, levelno, message, fields) ==
    callHandlers(root_logger.handlers, levelno,
                 JsonFormatter(levelno, logger_name, message, fields))

info(logger_name, message, fields) ==
    _log(logger_name, LogLevel["INFO"], message, fields)

(***************************************************************************)
(* services/product_service.py                                             *)
(***************************************************************************)
\* get_all_products: what it logs, and the list it returns
\* a variant of get_all_products_log with a defect: success is logged first
get_all_products_log_success_first ==
    info("app.services.product_service", "products_retrieved_successfully",
         [products_returned |-> Len(_PRODUCTS_DATABASE),
          operation |-> "get_all_products"])
    \o
    info("app.services.product_service", "retrieving_all_products",
         [total_products_in_database |-> Len(_PRODUCTS_DATABASE),
          operation |-> "get_all_products"])

get_all_products_log ==
    info("app.services.product_service", "retrieving_all_products",
         [total_products_in_database |-> Len(_PRODUCTS_DATABASE),
          operation |-> "get_all_products"])
    \o
    info("app.services.product_service", "products_retrieved_successfully",
         [products_returned |-> Len(_PRODUCTS_DATABASE),
          operation |-> "get_all_products"])

\* get_all_products reads the module-level list and assigns nothing to it:
\* the list afterwards
database_after_get_all_products_pops ==
    SubSeq(_PRODUCTS_DATABASE, 1, Len(_PRODUCTS_DATABASE) - 1)

database_after_get_all_products == _PRODUCTS_DATABASE

\* variants of get_all_products with a defect
get_all_products_drops_last ==
    SubSeq(_PRODUCTS_DATABASE, 1, Len(_PRODUCTS_DATABASE) - 1)

get_all_products_in_stock_only ==
    SelectSeq(_PRODUCTS_DATABASE, LAMBDA p : p.product_in_stock)

get_all_products_reversed ==
    [i \in 1..Len(_PRODUCTS_DATABASE) |->
        _PRODUCTS_DATABASE[Len(_PRODUCTS_DATABASE) + 1 - i]]

get_all_products == _PRODUCTS_DATABASE

(***************************************************************************)
(* api/products.py                                                         *)
(***************************************************************************)
\* a query string: the four parameters the filtering tests send
Query(min_price, max_price, category, keyword) ==
    [min_price_usd  |-> min_price,
     max_price_usd  |-> max_price,
     category       |-> category,
     search_keyword |-> keyword]

NoQuery == Query({}, {}, {}, {})

\* get_products declares no parameter: whatever the query string holds is
\* dropped by the framework and the handler runs the same way
\* a variant of get_products with a defect: it filters on category and on
\* maximum price, and keeps a record that passes either of the two
get_products_either_filter(query) ==
    LET products ==
            SelectSeq(get_all_products,
                LAMBDA p :
                    \/ query.category = {} /\ query.max_price_usd = {}
                    \/ p.product_category \in query.category
                    \/ \E hi \in query.max_price_usd :
                           p.product_price_usd <= hi)
    IN  ProductListResponse(products, Len(products))

\* a variant of get_products with a defect: the count is of the products in
\* stock, not of the products listed
get_products_counts_in_stock(query) ==
    LET products == get_all_products
    IN  ProductListResponse(products,
            Len(SelectSeq(products, LAMBDA p : p.product_in_stock)))

get_products(query) ==
    LET products == get_all_products
    IN  ProductListResponse(products, Len(products))

\* line 49: the entry event
log_api_request_received ==
    info("app.api.products", "api_request_received",
         [endpoint |-> "/api/products", http_method |-> "GET",
          operation |-> "get_products"])

\* lines 54-56: the completion event
log_api_response_prepared(products) ==
    info("app.api.products", "api_response_prepared",
         [endpoint |-> "/api/products",
          products_count |-> Len(products),
          operation |-> "get_products"])

get_products_log(query) ==
    log_api_request_received
    \o get_all_products_log
    \o log_api_response_prepared(get_all_products)

(***************************************************************************)
(* main.py                                                                 *)
(***************************************************************************)
\* a variant of health_check with a defect: it reports on the catalog
health_check_reports_catalog ==
    [status |-> IF Len(_PRODUCTS_DATABASE) > 0 THEN "ok" ELSE "unhealthy"]

health_check == [status |-> "healthy"]

health_check_log ==
    info("app.main", "health_check_request", [endpoint |-> "/health"])

(***************************************************************************)
(* The requests a client sends                                             *)
(***************************************************************************)
\* amounts in cents: 29.99 is the price of product 1, 50 and 100 are the
\* bounds the filtering tests use
PriceInputs == {2999, 5000, 10000}

\* two allowed categories (the first and the last of the catalog) and one
\* that is not allowed
CategoryInputs == {"electronics", "books", "toys"}

KeywordInputs == {"wireless", "WIRELESS", "Wireless"}

Optional(S) == {{}} \cup {{v} : v \in S}

Queries ==
    {Query(lo, hi, c, k) :
        lo \in Optional(PriceInputs), hi \in Optional(PriceInputs),
        c \in Optional(CategoryInputs), k \in Optional(KeywordInputs)}

\* /health is probed bare, or with a query string it has no use for
HealthQueries == {NoQuery, Query({10000}, {5000}, {"toys"}, {"wireless"})}

(***************************************************************************)
(* What the tests in tests/test_products_filtering.py compare              *)
(***************************************************************************)
\* the characters of every text of the catalog and of every keyword sent
Characters ==
    "Wireless Bluetooth Mouse" :>
        <<"W","i","r","e","l","e","s","s"," ","B","l","u","e","t","o","o","t","h"," ","M","o","u","s","e">> @@
    "Ergonomic wireless mouse with 2.4GHz USB receiver and long-lasting battery life" :>
        <<"E","r","g","o","n","o","m","i","c"," ","w","i","r","e","l","e","s","s"," ","m","o","u","s","e"," ","w","i","t","h"," ","2",".","4","G","H","z"," ","U","S","B"," ","r","e","c","e","i","v","e","r"," ","a","n","d"," ","l","o","n","g","-","l","a","s","t","i","n","g"," ","b","a","t","t","e","r","y"," ","l","i","f","e">> @@
    "Mechanical Gaming Keyboard" :>
        <<"M","e","c","h","a","n","i","c","a","l"," ","G","a","m","i","n","g"," ","K","e","y","b","o","a","r","d">> @@
    "RGB backlit mechanical keyboard with blue switches and programmable macros" :>
        <<"R","G","B"," ","b","a","c","k","l","i","t"," ","m","e","c","h","a","n","i","c","a","l"," ","k","e","y","b","o","a","r","d"," ","w","i","t","h"," ","b","l","u","e"," ","s","w","i","t","c","h","e","s"," ","a","n","d"," ","p","r","o","g","r","a","m","m","a","b","l","e"," ","m","a","c","r","o","s">> @@
    "USB-C Hub 7-in-1" :>
        <<"U","S","B","-","C"," ","H","u","b"," ","7","-","i","n","-","1">> @@
    "Multi-port USB-C hub with HDMI, SD card reader, and 100W power delivery" :>
        <<"M","u","l","t","i","-","p","o","r","t"," ","U","S","B","-","C"," ","h","u","b"," ","w","i","t","h"," ","H","D","M","I",","," ","S","D"," ","c","a","r","d"," ","r","e","a","d","e","r",","," ","a","n","d"," ","1","0","0","W"," ","p","o","w","e","r"," ","d","e","l","i","v","e","r","y">> @@
    "Wireless Earbuds Pro" :>
        <<"W","i","r","e","l","e","s","s"," ","E","a","r","b","u","d","s"," ","P","r","o">> @@
    "Active noise cancelling wireless earbuds with 30-hour battery life and charging case" :>
        <<"A","c","t","i","v","e"," ","n","o","i","s","e"," ","c","a","n","c","e","l","l","i","n","g"," ","w","i","r","e","l","e","s","s"," ","e","a","r","b","u","d","s"," ","w","i","t","h"," ","3","0","-","h","o","u","r"," ","b","a","t","t","e","r","y"," ","l","i","f","e"," ","a","n","d"," ","c","h","a","r","g","i","n","g"," ","c","a","s","e">> @@
    "4K Webcam" :>
        <<"4","K"," ","W","e","b","c","a","m">> @@
    "Ultra HD 4K webcam with autofocus, ring light, and dual microphones" :>
        <<"U","l","t","r","a"," ","H","D"," ","4","K"," ","w","e","b","c","a","m"," ","w","i","t","h"," ","a","u","t","o","f","o","c","u","s",","," ","r","i","n","g"," ","l","i","g","h","t",","," ","a","n","d"," ","d","u","a","l"," ","m","i","c","r","o","p","h","o","n","e","s">> @@
    "Portable SSD 1TB" :>
        <<"P","o","r","t","a","b","l","e"," ","S","S","D"," ","1","T","B">> @@
    "Ultra-fast portable solid state drive with USB 3.2 Gen 2 speeds up to 1050MB/s" :>
        <<"U","l","t","r","a","-","f","a","s","t"," ","p","o","r","t","a","b","l","e"," ","s","o","l","i","d"," ","s","t","a","t","e"," ","d","r","i","v","e"," ","w","i","t","h"," ","U","S","B"," ","3",".","2"," ","G","e","n"," ","2"," ","s","p","e","e","d","s"," ","u","p"," ","t","o"," ","1","0","5","0","M","B","/","s">> @@
    "Smart LED Light Bulb" :>
        <<"S","m","a","r","t"," ","L","E","D"," ","L","i","g","h","t"," ","B","u","l","b">> @@
    "WiFi-enabled color-changing LED bulb compatible with Alexa and Google Home" :>
        <<"W","i","F","i","-","e","n","a","b","l","e","d"," ","c","o","l","o","r","-","c","h","a","n","g","i","n","g"," ","L","E","D"," ","b","u","l","b"," ","c","o","m","p","a","t","i","b","l","e"," ","w","i","t","h"," ","A","l","e","x","a"," ","a","n","d"," ","G","o","o","g","l","e"," ","H","o","m","e">> @@
    "Wireless Charger Stand" :>
        <<"W","i","r","e","l","e","s","s"," ","C","h","a","r","g","e","r"," ","S","t","a","n","d">> @@
    "15W fast wireless charging stand with adjustable viewing angle for smartphones" :>
        <<"1","5","W"," ","f","a","s","t"," ","w","i","r","e","l","e","s","s"," ","c","h","a","r","g","i","n","g"," ","s","t","a","n","d"," ","w","i","t","h"," ","a","d","j","u","s","t","a","b","l","e"," ","v","i","e","w","i","n","g"," ","a","n","g","l","e"," ","f","o","r"," ","s","m","a","r","t","p","h","o","n","e","s">> @@
    "Classic Cotton T-Shirt" :>
        <<"C","l","a","s","s","i","c"," ","C","o","t","t","o","n"," ","T","-","S","h","i","r","t">> @@
    "100% organic cotton crew neck t-shirt available in multiple colors" :>
        <<"1","0","0","%"," ","o","r","g","a","n","i","c"," ","c","o","t","t","o","n"," ","c","r","e","w"," ","n","e","c","k"," ","t","-","s","h","i","r","t"," ","a","v","a","i","l","a","b","l","e"," ","i","n"," ","m","u","l","t","i","p","l","e"," ","c","o","l","o","r","s">> @@
    "Slim Fit Denim Jeans" :>
        <<"S","l","i","m"," ","F","i","t"," ","D","e","n","i","m"," ","J","e","a","n","s">> @@
    "Stretch denim jeans with modern slim fit and classic 5-pocket styling" :>
        <<"S","t","r","e","t","c","h"," ","d","e","n","i","m"," ","j","e","a","n","s"," ","w","i","t","h"," ","m","o","d","e","r","n"," ","s","l","i","m"," ","f","i","t"," ","a","n","d"," ","c","l","a","s","s","i","c"," ","5","-","p","o","c","k","e","t"," ","s","t","y","l","i","n","g">> @@
    "Hooded Zip Sweatshirt" :>
        <<"H","o","o","d","e","d"," ","Z","i","p"," ","S","w","e","a","t","s","h","i","r","t">> @@
    "Comfortable fleece-lined hoodie with full zip and kangaroo pockets" :>
        <<"C","o","m","f","o","r","t","a","b","l","e"," ","f","l","e","e","c","e","-","l","i","n","e","d"," ","h","o","o","d","i","e"," ","w","i","t","h"," ","f","u","l","l"," ","z","i","p"," ","a","n","d"," ","k","a","n","g","a","r","o","o"," ","p","o","c","k","e","t","s">> @@
    "Running Jacket Windbreaker" :>
        <<"R","u","n","n","i","n","g"," ","J","a","c","k","e","t"," ","W","i","n","d","b","r","e","a","k","e","r">> @@
    "Lightweight water-resistant windbreaker with reflective details for running" :>
        <<"L","i","g","h","t","w","e","i","g","h","t"," ","w","a","t","e","r","-","r","e","s","i","s","t","a","n","t"," ","w","i","n","d","b","r","e","a","k","e","r"," ","w","i","t","h"," ","r","e","f","l","e","c","t","i","v","e"," ","d","e","t","a","i","l","s"," ","f","o","r"," ","r","u","n","n","i","n","g">> @@
    "Merino Wool Beanie" :>
        <<"M","e","r","i","n","o"," ","W","o","o","l"," ","B","e","a","n","i","e">> @@
    "Soft merino wool winter beanie hat with fold-over cuff design" :>
        <<"S","o","f","t"," ","m","e","r","i","n","o"," ","w","o","o","l"," ","w","i","n","t","e","r"," ","b","e","a","n","i","e"," ","h","a","t"," ","w","i","t","h"," ","f","o","l","d","-","o","v","e","r"," ","c","u","f","f"," ","d","e","s","i","g","n">> @@
    "Canvas Sneakers" :>
        <<"C","a","n","v","a","s"," ","S","n","e","a","k","e","r","s">> @@
    "Classic low-top canvas sneakers with rubber sole and cushioned insole" :>
        <<"C","l","a","s","s","i","c"," ","l","o","w","-","t","o","p"," ","c","a","n","v","a","s"," ","s","n","e","a","k","e","r","s"," ","w","i","t","h"," ","r","u","b","b","e","r"," ","s","o","l","e"," ","a","n","d"," ","c","u","s","h","i","o","n","e","d"," ","i","n","s","o","l","e">> @@
    "Leather Crossbody Bag" :>
        <<"L","e","a","t","h","e","r"," ","C","r","o","s","s","b","o","d","y"," ","B","a","g">> @@
    "Genuine leather crossbody bag with adjustable strap and multiple compartments" :>
        <<"G","e","n","u","i","n","e"," ","l","e","a","t","h","e","r"," ","c","r","o","s","s","b","o","d","y"," ","b","a","g"," ","w","i","t","h"," ","a","d","j","u","s","t","a","b","l","e"," ","s","t","r","a","p"," ","a","n","d"," ","m","u","l","t","i","p","l","e"," ","c","o","m","p","a","r","t","m","e","n","t","s">> @@
    "Stainless Steel French Press" :>
        <<"S","t","a","i","n","l","e","s","s"," ","S","t","e","e","l"," ","F","r","e","n","c","h"," ","P","r","e","s","s">> @@
    "34oz double-wall insulated French press coffee maker with heat-resistant handle" :>
        <<"3","4","o","z"," ","d","o","u","b","l","e","-","w","a","l","l"," ","i","n","s","u","l","a","t","e","d"," ","F","r","e","n","c","h"," ","p","r","e","s","s"," ","c","o","f","f","e","e"," ","m","a","k","e","r"," ","w","i","t","h"," ","h","e","a","t","-","r","e","s","i","s","t","a","n","t"," ","h","a","n","d","l","e">> @@
    "Ceramic Non-Stick Frying Pan" :>
        <<"C","e","r","a","m","i","c"," ","N","o","n","-","S","t","i","c","k"," ","F","r","y","i","n","g"," ","P","a","n">> @@
    "10-inch ceramic-coated frying pan with ergonomic handle and even heat distribution" :>
        <<"1","0","-","i","n","c","h"," ","c","e","r","a","m","i","c","-","c","o","a","t","e","d"," ","f","r","y","i","n","g"," ","p","a","n"," ","w","i","t","h"," ","e","r","g","o","n","o","m","i","c"," ","h","a","n","d","l","e"," ","a","n","d"," ","e","v","e","n"," ","h","e","a","t"," ","d","i","s","t","r","i","b","u","t","i","o","n">> @@
    "Memory Foam Pillow Set" :>
        <<"M","e","m","o","r","y"," ","F","o","a","m"," ","P","i","l","l","o","w"," ","S","e","t">> @@
    "Set of 2 bamboo-covered memory foam pillows with adjustable fill for custom comfort" :>
        <<"S","e","t"," ","o","f"," ","2"," ","b","a","m","b","o","o","-","c","o","v","e","r","e","d"," ","m","e","m","o","r","y"," ","f","o","a","m"," ","p","i","l","l","o","w","s"," ","w","i","t","h"," ","a","d","j","u","s","t","a","b","l","e"," ","f","i","l","l"," ","f","o","r"," ","c","u","s","t","o","m"," ","c","o","m","f","o","r","t">> @@
    "Smart Robot Vacuum" :>
        <<"S","m","a","r","t"," ","R","o","b","o","t"," ","V","a","c","u","u","m">> @@
    "App-controlled robot vacuum with auto-recharge and scheduled cleaning features" :>
        <<"A","p","p","-","c","o","n","t","r","o","l","l","e","d"," ","r","o","b","o","t"," ","v","a","c","u","u","m"," ","w","i","t","h"," ","a","u","t","o","-","r","e","c","h","a","r","g","e"," ","a","n","d"," ","s","c","h","e","d","u","l","e","d"," ","c","l","e","a","n","i","n","g"," ","f","e","a","t","u","r","e","s">> @@
    "Bamboo Cutting Board Set" :>
        <<"B","a","m","b","o","o"," ","C","u","t","t","i","n","g"," ","B","o","a","r","d"," ","S","e","t">> @@
    "Set of 3 bamboo cutting boards with juice grooves and non-slip feet" :>
        <<"S","e","t"," ","o","f"," ","3"," ","b","a","m","b","o","o"," ","c","u","t","t","i","n","g"," ","b","o","a","r","d","s"," ","w","i","t","h"," ","j","u","i","c","e"," ","g","r","o","o","v","e","s"," ","a","n","d"," ","n","o","n","-","s","l","i","p"," ","f","e","e","t">> @@
    "Aromatherapy Essential Oil Diffuser" :>
        <<"A","r","o","m","a","t","h","e","r","a","p","y"," ","E","s","s","e","n","t","i","a","l"," ","O","i","l"," ","D","i","f","f","u","s","e","r">> @@
    "Ultrasonic essential oil diffuser with 7 LED light colors and auto shut-off" :>
        <<"U","l","t","r","a","s","o","n","i","c"," ","e","s","s","e","n","t","i","a","l"," ","o","i","l"," ","d","i","f","f","u","s","e","r"," ","w","i","t","h"," ","7"," ","L","E","D"," ","l","i","g","h","t"," ","c","o","l","o","r","s"," ","a","n","d"," ","a","u","t","o"," ","s","h","u","t","-","o","f","f">> @@
    "Weighted Blanket 15lbs" :>
        <<"W","e","i","g","h","t","e","d"," ","B","l","a","n","k","e","t"," ","1","5","l","b","s">> @@
    "Premium weighted blanket with glass beads and soft breathable cotton cover" :>
        <<"P","r","e","m","i","u","m"," ","w","e","i","g","h","t","e","d"," ","b","l","a","n","k","e","t"," ","w","i","t","h"," ","g","l","a","s","s"," ","b","e","a","d","s"," ","a","n","d"," ","s","o","f","t"," ","b","r","e","a","t","h","a","b","l","e"," ","c","o","t","t","o","n"," ","c","o","v","e","r">> @@
    "Yoga Mat with Carrying Strap" :>
        <<"Y","o","g","a"," ","M","a","t"," ","w","i","t","h"," ","C","a","r","r","y","i","n","g"," ","S","t","r","a","p">> @@
    "6mm thick non-slip yoga mat with alignment marks and free carrying strap" :>
        <<"6","m","m"," ","t","h","i","c","k"," ","n","o","n","-","s","l","i","p"," ","y","o","g","a"," ","m","a","t"," ","w","i","t","h"," ","a","l","i","g","n","m","e","n","t"," ","m","a","r","k","s"," ","a","n","d"," ","f","r","e","e"," ","c","a","r","r","y","i","n","g"," ","s","t","r","a","p">> @@
    "Adjustable Dumbbell Set" :>
        <<"A","d","j","u","s","t","a","b","l","e"," ","D","u","m","b","b","e","l","l"," ","S","e","t">> @@
    "Pair of adjustable dumbbells from 5-52.5 lbs with quick-change dial system" :>
        <<"P","a","i","r"," ","o","f"," ","a","d","j","u","s","t","a","b","l","e"," ","d","u","m","b","b","e","l","l","s"," ","f","r","o","m"," ","5","-","5","2",".","5"," ","l","b","s"," ","w","i","t","h"," ","q","u","i","c","k","-","c","h","a","n","g","e"," ","d","i","a","l"," ","s","y","s","t","e","m">> @@
    "Resistance Bands Set" :>
        <<"R","e","s","i","s","t","a","n","c","e"," ","B","a","n","d","s"," ","S","e","t">> @@
    "Set of 5 resistance bands with handles, door anchor, and carrying bag" :>
        <<"S","e","t"," ","o","f"," ","5"," ","r","e","s","i","s","t","a","n","c","e"," ","b","a","n","d","s"," ","w","i","t","h"," ","h","a","n","d","l","e","s",","," ","d","o","o","r"," ","a","n","c","h","o","r",","," ","a","n","d"," ","c","a","r","r","y","i","n","g"," ","b","a","g">> @@
    "Foam Roller for Muscle Recovery" :>
        <<"F","o","a","m"," ","R","o","l","l","e","r"," ","f","o","r"," ","M","u","s","c","l","e"," ","R","e","c","o","v","e","r","y">> @@
    "High-density foam roller for deep tissue massage and muscle recovery" :>
        <<"H","i","g","h","-","d","e","n","s","i","t","y"," ","f","o","a","m"," ","r","o","l","l","e","r"," ","f","o","r"," ","d","e","e","p"," ","t","i","s","s","u","e"," ","m","a","s","s","a","g","e"," ","a","n","d"," ","m","u","s","c","l","e"," ","r","e","c","o","v","e","r","y">> @@
    "Sports Water Bottle 32oz" :>
        <<"S","p","o","r","t","s"," ","W","a","t","e","r"," ","B","o","t","t","l","e"," ","3","2","o","z">> @@
    "Insulated stainless steel water bottle keeps drinks cold for 24 hours" :>
        <<"I","n","s","u","l","a","t","e","d"," ","s","t","a","i","n","l","e","s","s"," ","s","t","e","e","l"," ","w","a","t","e","r"," ","b","o","t","t","l","e"," ","k","e","e","p","s"," ","d","r","i","n","k","s"," ","c","o","l","d"," ","f","o","r"," ","2","4"," ","h","o","u","r","s">> @@
    "The Pragmatic Programmer" :>
        <<"T","h","e"," ","P","r","a","g","m","a","t","i","c"," ","P","r","o","g","r","a","m","m","e","r">> @@
    "Classic software development book with timeless programming wisdom and best practices" :>
        <<"C","l","a","s","s","i","c"," ","s","o","f","t","w","a","r","e"," ","d","e","v","e","l","o","p","m","e","n","t"," ","b","o","o","k"," ","w","i","t","h"," ","t","i","m","e","l","e","s","s"," ","p","r","o","g","r","a","m","m","i","n","g"," ","w","i","s","d","o","m"," ","a","n","d"," ","b","e","s","t"," ","p","r","a","c","t","i","c","e","s">> @@
    "Atomic Habits" :>
        <<"A","t","o","m","i","c"," ","H","a","b","i","t","s">> @@
    "Science-backed strategies for building good habits and breaking bad ones" :>
        <<"S","c","i","e","n","c","e","-","b","a","c","k","e","d"," ","s","t","r","a","t","e","g","i","e","s"," ","f","o","r"," ","b","u","i","l","d","i","n","g"," ","g","o","o","d"," ","h","a","b","i","t","s"," ","a","n","d"," ","b","r","e","a","k","i","n","g"," ","b","a","d"," ","o","n","e","s">> @@
    "The Design of Everyday Things" :>
        <<"T","h","e"," ","D","e","s","i","g","n"," ","o","f"," ","E","v","e","r","y","d","a","y"," ","T","h","i","n","g","s">> @@
    "Foundational book on user-centered design and human-computer interaction" :>
        <<"F","o","u","n","d","a","t","i","o","n","a","l"," ","b","o","o","k"," ","o","n"," ","u","s","e","r","-","c","e","n","t","e","r","e","d"," ","d","e","s","i","g","n"," ","a","n","d"," ","h","u","m","a","n","-","c","o","m","p","u","t","e","r"," ","i","n","t","e","r","a","c","t","i","o","n">> @@
    "wireless" :>
        <<"w","i","r","e","l","e","s","s">> @@
    "WIRELESS" :>
        <<"W","I","R","E","L","E","S","S">> @@
    "Wireless" :>
        <<"W","i","r","e","l","e","s","s">>

\* str.lower() on the letters that occur
LowerCase ==
    "A" :> "a" @@ "B" :> "b" @@ "C" :> "c" @@ "D" :> "d" @@ "E" :> "e" @@
    "F" :> "f" @@ "G" :> "g" @@ "H" :> "h" @@ "I" :> "i" @@ "J" :> "j" @@
    "K" :> "k" @@ "L" :> "l" @@ "M" :> "m" @@ "N" :> "n" @@ "O" :> "o" @@
    "P" :> "p" @@ "Q" :> "q" @@ "R" :> "r" @@ "S" :> "s" @@ "T" :> "t" @@
    "U" :> "u" @@ "V" :> "v" @@ "W" :> "w" @@ "X" :> "x" @@ "Y" :> "y" @@
    "Z" :> "z"

lower(text) ==
    [i \in 1..Len(text) |->
        IF text[i] \in DOMAIN LowerCase THEN LowerCase[text[i]] ELSE text[i]]

\* needle in haystack
Contains(haystack, needle) ==
    \E start \in 0..(Len(haystack) - Len(needle)) :
        \A j \in 1..Len(needle) : haystack[start + j] = needle[j]

\* keyword in name.lower() or keyword in description.lower(), the keyword
\* lowered as well
KeywordMatches(product, keyword) ==
    LET needle == lower(Characters[keyword])
    IN  \/ Contains(lower(Characters[product.product_name]), needle)
        \/ Contains(lower(Characters[product.product_description]), needle)

Present(parameter) == parameter # {}
ValueOf(parameter) == CHOOSE v \in parameter : TRUE

\* one product against every criterion the query supplies
MeetsCriteria(product, query) ==
    /\ Present(query.min_price_usd) =>
           product.product_price_usd >= ValueOf(query.min_price_usd)
    /\ Present(query.max_price_usd) =>
           product.product_price_usd <= ValueOf(query.max_price_usd)
    /\ Present(query.category) =>
           product.product_category = ValueOf(query.category)
    /\ Present(query.search_keyword) =>
           KeywordMatches(product, ValueOf(query.search_keyword))

InvalidPriceRange(query) ==
    /\ Present(query.min_price_usd)
    /\ Present(query.max_price_usd)
    /\ ValueOf(query.min_price_usd) > ValueOf(query.max_price_usd)

InvalidCategory(query) ==
    /\ Present(query.category)
    /\ ValueOf(query.category) \notin ProductCategory

PassesValidation(query) ==
    ~InvalidPriceRange(query) /\ ~InvalidCategory(query)

ProductIds(products) == [i \in 1..Len(products) |-> products[i].product_id]

InList(product, products) == \E i \in 1..Len(products) : products[i] = product

\* s is t with some of its elements left out
RECURSIVE IsSubsequence(_, _)
IsSubsequence(s, t) ==
    IF s = <<>> THEN TRUE
    ELSE IF t = <<>> THEN FALSE
    ELSE IF Head(s) = Head(t) THEN IsSubsequence(Tail(s), Tail(t))
    ELSE IsSubsequence(s, Tail(t))

ProductsRequested == request.endpoint = "/api/products"

ProductsReturned == ProductsRequested /\ response.status_code = 200

(***************************************************************************)
(* The state machine                                                       *)
(***************************************************************************)
program_vars == <<_PRODUCTS_DATABASE, root_logger, request, response, stdout,
                  in_flight>>

\* a call of get_products that has not been made
NotCalled ==
    [line       |-> "idle",
     query      |-> NoQuery,
     logged     |-> <<>>,
     overlapped |-> FALSE,
     alone      |-> [status_code |-> 0, body |-> [status |-> ""]],
     returned   |-> [status_code |-> 0, body |-> [status |-> ""]]]

\* after `import app.main`: the catalog is seeded, setup_logging has run once
\* with settings.log_level, nothing has been requested
ProgramInit ==
    /\ _PRODUCTS_DATABASE = get_seed_products
    /\ root_logger = [level     |-> LogLevel["INFO"],
                      handlers  |-> <<StreamHandler>>,
                      propagate |-> FALSE]
    /\ request = [endpoint |-> "", query |-> NoQuery]
    /\ response = [status_code |-> 0, body |-> [status |-> ""]]
    /\ stdout = <<>>
    /\ in_flight = [call \in 1..MaxConcurrent |-> NotCalled]

\* the route GET /api/products, run on one request from entry to return
GET_api_products(query) ==
    /\ request' = [endpoint |-> "/api/products", query |-> query]
    /\ response' = [status_code |-> 200, body |-> get_products(query)]
    /\ stdout' = get_products_log(query)
    /\ _PRODUCTS_DATABASE' = database_after_get_all_products
    /\ UNCHANGED <<root_logger, in_flight>>

\* the route GET /health
GET_health(query) ==
    /\ request' = [endpoint |-> "/health", query |-> query]
    /\ response' = [status_code |-> 200, body |-> health_check]
    /\ stdout' = health_check_log
    /\ UNCHANGED <<_PRODUCTS_DATABASE, root_logger, in_flight>>

(***************************************************************************)
(* Spec: any client, any requests in any order                             *)
(***************************************************************************)
Init ==
    /\ ProgramInit
    /\ test_client = [script |-> <<>>, responses |-> <<>>]

GetProducts ==
    \E query \in Queries :
        /\ GET_api_products(query)
        /\ UNCHANGED test_client

HealthCheck ==
    \E query \in HealthQueries :
        /\ GET_health(query)
        /\ UNCHANGED test_client

\* setup_logging(log_level), called once more
SetupLogging ==
    \E log_level \in DOMAIN LogLevel :
        /\ Len(root_logger.handlers) < MaxSetupCalls
        /\ root_logger' = setup_logging(log_level)
        /\ stdout' = <<>>
        /\ UNCHANGED <<_PRODUCTS_DATABASE, request, response, test_client,
                       in_flight>>

Next == GetProducts \/ HealthCheck \/ SetupLogging

Spec == Init /\ [][Next]_vars

(***************************************************************************)
(* SpecCombined: a test sends one query, then a second query on other      *)
(* parameters, then both queries merged into one, and keeps the three      *)
(* responses                                                               *)
(***************************************************************************)
Parameters == {"min_price_usd", "max_price_usd", "category", "search_keyword"}

DisjointParameters(first, second) ==
    \A name \in Parameters : first[name] = {} \/ second[name] = {}

\* the query string carrying the parameters of both
Merged(first, second) ==
    [name \in Parameters |-> first[name] \cup second[name]]

CombinedScripts ==
    {<<first, second, Merged(first, second)>> :
        <<first, second>> \in
            {pair \in Queries \X Queries :
                /\ PassesValidation(pair[1])
                /\ PassesValidation(pair[2])
                /\ DisjointParameters(pair[1], pair[2])}}

InitCombined ==
    /\ ProgramInit
    /\ \E script \in CombinedScripts :
           test_client = [script |-> script, responses |-> <<>>]

\* response = test_client.get("/api/products?<next query of the script>")
ScriptedRequest ==
    /\ Len(test_client.responses) < Len(test_client.script)
    /\ GET_api_products(test_client.script[Len(test_client.responses) + 1])
    /\ test_client' =
           [test_client EXCEPT !.responses = Append(@, response')]

NextCombined == ScriptedRequest

SpecCombined == InitCombined /\ [][NextCombined]_vars

(***************************************************************************)
(* SpecRepeated: a test sends one query twice and keeps both responses;    *)
(* between the two, other requests are served and logging is set up anew   *)
(***************************************************************************)
InitRepeated ==
    /\ ProgramInit
    /\ \E query \in Queries :
           test_client = [script    |-> <<query, query>>,
                          responses |-> <<>>,
                          between   |-> 0]

IsBetween ==
    /\ Len(test_client.responses) = 1
    /\ test_client.between < MaxBetween

OtherProductsRequest ==
    \E query \in HealthQueries :
        /\ IsBetween
        /\ GET_api_products(query)
        /\ test_client' = [test_client EXCEPT !.between = @ + 1]

OtherHealthRequest ==
    \E query \in HealthQueries :
        /\ IsBetween
        /\ GET_health(query)
        /\ test_client' = [test_client EXCEPT !.between = @ + 1]

OtherSetupLogging ==
    \E log_level \in DOMAIN LogLevel :
        /\ IsBetween
        /\ Len(root_logger.handlers) < MaxSetupCalls
        /\ root_logger' = setup_logging(log_level)
        /\ stdout' = <<>>
        /\ test_client' = [test_client EXCEPT !.between = @ + 1]
        /\ UNCHANGED <<_PRODUCTS_DATABASE, request, response, in_flight>>

NextRepeated ==
    \/ ScriptedRequest
    \/ OtherProductsRequest
    \/ OtherHealthRequest
    \/ OtherSetupLogging

SpecRepeated == InitRepeated /\ [][NextRepeated]_vars

(***************************************************************************)
(* SpecConcurrent: several requests to the products endpoint are handled   *)
(* side by side; a call of get_products advances one statement at a time   *)
(* and the calls interleave in every order.  The local name `products` of  *)
(* a call is the module-level list itself, not a copy of it: what the call *)
(* reads through it is the list as it is at that moment.                   *)
(***************************************************************************)
InitConcurrent ==
    /\ ProgramInit
    /\ test_client = [script |-> <<>>, responses |-> <<>>]

UnderWay(call) == in_flight[call].line \notin {"idle", "done"}

\* the framework calls get_products for a request
Dispatch(call) ==
    \E query \in HealthQueries :
        /\ in_flight[call].line = "idle"
        /\ in_flight' =
               [other \in 1..MaxConcurrent |->
                   IF other = call
                   THEN [NotCalled EXCEPT
                            !.line = "49",
                            !.query = query,
                            !.overlapped = \E o \in 1..MaxConcurrent : UnderWay(o),
                            !.alone = [status_code |-> 200,
                                       body |-> get_products(query)]]
                   ELSE IF UnderWay(other)
                   THEN [in_flight[other] EXCEPT !.overlapped = TRUE]
                   ELSE in_flight[other]]
        /\ stdout' = <<>>
        /\ UNCHANGED <<_PRODUCTS_DATABASE, root_logger, request, response,
                       test_client>>

\* line 49: logger.info("api_request_received", ...)
LogRequestReceived(call) ==
    /\ in_flight[call].line = "49"
    /\ stdout' = log_api_request_received
    /\ in_flight' = [in_flight EXCEPT ![call].line = "52",
                                      ![call].logged = @ \o stdout']
    /\ UNCHANGED <<_PRODUCTS_DATABASE, root_logger, request, response,
                   test_client>>

\* line 52: products = product_service.get_all_products()
CallService(call) ==
    /\ in_flight[call].line = "52"
    /\ stdout' = get_all_products_log
    /\ _PRODUCTS_DATABASE' = database_after_get_all_products
    /\ in_flight' = [in_flight EXCEPT ![call].line = "54",
                                      ![call].logged = @ \o stdout']
    /\ UNCHANGED <<root_logger, request, response, test_client>>

\* lines 54-56: logger.info("api_response_prepared", ...)
LogResponsePrepared(call) ==
    /\ in_flight[call].line = "54"
    /\ stdout' = log_api_response_prepared(get_all_products)
    /\ in_flight' = [in_flight EXCEPT ![call].line = "58",
                                      ![call].logged = @ \o stdout']
    /\ UNCHANGED <<_PRODUCTS_DATABASE, root_logger, request, response,
                   test_client>>

\* line 58: return ProductListResponse(products=products, total_count=...)
Return(call) ==
    /\ in_flight[call].line = "58"
    /\ request' = [endpoint |-> "/api/products",
                   query |-> in_flight[call].query]
    /\ response' = [status_code |-> 200,
                    body |-> ProductListResponse(get_all_products,
                                                 Len(get_all_products))]
    /\ in_flight' = [in_flight EXCEPT ![call].line = "done",
                                      ![call].returned = response']
    /\ stdout' = <<>>
    /\ UNCHANGED <<_PRODUCTS_DATABASE, root_logger, test_client>>

NextConcurrent ==
    \E call \in 1..MaxConcurrent :
        \/ Dispatch(call)
        \/ LogRequestReceived(call)
        \/ CallService(call)
        \/ LogResponsePrepared(call)
        \/ Return(call)

SpecConcurrent == InitConcurrent /\ [][NextConcurrent]_vars

(***************************************************************************)
(* Properties of GET /api/products                                         *)
(***************************************************************************)
\* C1: a GET on the products endpoint with no filter parameter is answered
\* 200 with the whole catalog, product_id 1,2,...,30 in that order, and
\* total_count 30, whatever was requested before
NoFilterReturnsFullCatalog ==
    (ProductsRequested /\ request.query = NoQuery) =>
        /\ response.status_code = 200
        /\ ProductIds(response.body.products) = [i \in 1..30 |-> i]
        /\ response.body.total_count = 30

\* C1 witness: an unfiltered request has been answered with a product list
NoFilterAnswered ==
    /\ ProductsReturned
    /\ request.query = NoQuery
    /\ Len(response.body.products) > 0

\* C2: when the criteria pass validation, every product of the 200 response
\* meets every criterion the request supplies
ReturnedMeetEveryCriterion ==
    (ProductsReturned /\ PassesValidation(request.query)) =>
        \A i \in 1..Len(response.body.products) :
            MeetsCriteria(response.body.products[i], request.query)

\* C3: when the criteria are valid, every catalog record that meets all the
\* supplied criteria is in the response (a record left out fails one of
\* them); a price equal to the minimum or to the maximum meets the bound
MatchingAreReturned ==
    (ProductsRequested /\ PassesValidation(request.query)) =>
        \A k \in 1..Len(_PRODUCTS_DATABASE) :
            MeetsCriteria(_PRODUCTS_DATABASE[k], request.query) =>
                /\ response.status_code = 200
                /\ InList(_PRODUCTS_DATABASE[k], response.body.products)

\* C3 witness: minimum and maximum both equal the price of a record, and
\* that record is in the response
BoundaryPriceReturned ==
    /\ ProductsReturned
    /\ Present(request.query.min_price_usd)
    /\ request.query.max_price_usd = request.query.min_price_usd
    /\ \E i \in 1..Len(response.body.products) :
           /\ response.body.products[i].product_price_usd
                  = ValueOf(request.query.min_price_usd)
           /\ MeetsCriteria(response.body.products[i], request.query)

\* C4: a request whose minimum price exceeds its maximum price is answered
\* 400 with error_code invalid_price_range, the fixed message and both
\* offending values in error_details, never 200
InvalidPriceRangeRejected ==
    (ProductsRequested /\ InvalidPriceRange(request.query)) =>
        /\ response.status_code = 400
        /\ response.body.error_code = "invalid_price_range"
        /\ response.body.error_message
               = "Minimum price cannot exceed maximum price"
        /\ response.body.error_details
               = [min_price |-> ValueOf(request.query.min_price_usd),
                  max_price |-> ValueOf(request.query.max_price_usd)]

\* C5: a request whose category is not one of the five allowed values is
\* answered 400 with error_code invalid_category and the allowed values in
\* error_details, never 200
InvalidCategoryRejected ==
    (ProductsRequested /\ InvalidCategory(request.query)) =>
        /\ response.status_code = 400
        /\ response.body.error_code = "invalid_category"
        /\ response.body.error_details = [valid_categories |-> ProductCategory]

\* C6: category = electronics alone returns exactly the records with
\* product_id 1..8, all of category electronics, and total_count 8
ElectronicsReturnsEight ==
    (ProductsRequested /\ request.query = Query({}, {}, {"electronics"}, {})) =>
        /\ response.status_code = 200
        /\ ProductIds(response.body.products) = [i \in 1..8 |-> i]
        /\ \A i \in 1..Len(response.body.products) :
               response.body.products[i].product_category = "electronics"
        /\ response.body.total_count = 8

\* C7: minimum price 100 alone returns only records priced 100.00 or more:
\* the items priced 149.99, 299.99 and 499.99, and no other catalog record
MinPrice100ReturnsThree ==
    (ProductsRequested /\ request.query = Query({10000}, {}, {}, {})) =>
        /\ response.status_code = 200
        /\ \A i \in 1..Len(response.body.products) :
               response.body.products[i].product_price_usd >= 10000
        /\ \A k \in 1..Len(_PRODUCTS_DATABASE) :
               InList(_PRODUCTS_DATABASE[k], response.body.products)
                   <=> _PRODUCTS_DATABASE[k].product_price_usd
                           \in {14999, 29999, 49999}

\* C8: keyword wireless, in any letter case, returns only records with
\* "wireless" in name or description compared case-insensitively, and
\* returns every record with "Wireless" in its name (product_id 1, 4, 8)
WirelessReturnsOnlyMatches ==
    (/\ ProductsRequested
     /\ request.query.search_keyword \in {{"wireless"}, {"WIRELESS"}, {"Wireless"}}
     /\ request.query = Query({}, {}, {}, request.query.search_keyword)) =>
        /\ response.status_code = 200
        /\ \A i \in 1..Len(response.body.products) :
               KeywordMatches(response.body.products[i], "wireless")
        /\ \A k \in 1..Len(_PRODUCTS_DATABASE) :
               Contains(Characters[_PRODUCTS_DATABASE[k].product_name],
                        Characters["Wireless"]) =>
                   InList(_PRODUCTS_DATABASE[k], response.body.products)
        /\ {1, 4, 8} \subseteq
               {response.body.products[i].product_id :
                    i \in 1..Len(response.body.products)}

ResponseIsSubsequenceOfCatalog ==
    ProductsReturned =>
        /\ IsSubsequence(response.body.products, _PRODUCTS_DATABASE)
        /\ \A i, j \in 1..Len(response.body.products) :
               i < j => /\ response.body.products[i] # response.body.products[j]
                        /\ response.body.products[i].product_id
                               < response.body.products[j].product_id

\* C10 witness: a response whose list has at least two records
SeveralProductsReturned ==
    ProductsReturned /\ Len(response.body.products) >= 2


\* C11: in every 200 response of the products endpoint total_count is the
\* number of entries of the products list, hence between 0 and 30
TotalCountIsListLength ==
    ProductsReturned =>
        /\ response.body.total_count = Len(response.body.products)
        /\ response.body.total_count \in 0..30

\* C11 witness: a 200 response with a count and a list that is not empty
CountedListReturned ==
    /\ ProductsReturned
    /\ response.body.total_count > 0
    /\ response.body.products # <<>>

(***************************************************************************)
(* Properties of the catalog store                                         *)
(***************************************************************************)
\* C12: after any sequence of requests to the products endpoint and to the
\* health endpoint the catalog holds the 30 records it was seeded with, same
\* field values, same order
CatalogNeverChanges ==
    _PRODUCTS_DATABASE = get_seed_products

\* C12 witness: the products endpoint has handed out the list and the
\* catalog is still the 30 seeded records
CatalogServedAndIntact ==
    /\ ProductsReturned
    /\ response.body.products = _PRODUCTS_DATABASE
    /\ Len(_PRODUCTS_DATABASE) = 30

\* C13: two requests to the products endpoint with the same criteria get
\* the same status, the same product list and the same total_count,
\* whatever was served between them
RepeatedRequestSameResponse ==
    Len(test_client.responses) = 2 =>
        /\ test_client.responses[1].status_code
               = test_client.responses[2].status_code
        /\ test_client.responses[1].body = test_client.responses[2].body

\* C13 witness: the repetition has been answered after other requests
RepeatedAfterOthers ==
    /\ Len(test_client.responses) = 2
    /\ test_client.between >= 1
    /\ test_client.responses[2].status_code = 200

(***************************************************************************)
(* Properties of the order of events within a request                      *)
(***************************************************************************)
\* C14: when the criteria fail validation the request ends with the error
\* response alone: the service function is not invoked (it logs nothing)
\* and the response carries no product list
ValidationFailureShortCircuits ==
    (ProductsRequested /\ ~PassesValidation(request.query)) =>
        /\ response.status_code # 200
        /\ "products" \notin DOMAIN response.body
        /\ \A i \in 1..Len(stdout) :
               stdout[i].logger_name # "app.services.product_service"

(***************************************************************************)
(* Properties of GET /health                                               *)
(***************************************************************************)
\* C15: GET /health is always answered 200 with {"status": "healthy"},
\* whatever the catalog holds, whatever the query string and whatever was
\* requested before
HealthAlwaysHealthy ==
    request.endpoint = "/health" =>
        /\ response.status_code = 200
        /\ response.body = [status |-> "healthy"]

\* C15 witness: /health has been answered for a request with a query string
HealthAnsweredWithQuery ==
    /\ request.endpoint = "/health"
    /\ request.query # NoQuery
    /\ response.status_code = 200

(***************************************************************************)
(* Properties of requests handled side by side                             *)
(***************************************************************************)
\* C16: when requests to the products endpoint are handled concurrently, in
\* any interleaving of their statements, no step of a request writes the
\* state the requests read (the catalog, the logger configuration), and
\* every request gets the response it gets when it runs alone
ConcurrentRequestsIndependent ==
    /\ [][UNCHANGED <<_PRODUCTS_DATABASE, root_logger>>]_vars
    /\ [](\A call \in 1..MaxConcurrent :
              in_flight[call].line = "done" =>
                  in_flight[call].returned = in_flight[call].alone)

\* C16 witness: a request has returned that was under way together with
\* another one
OverlappedRequestReturned ==
    \E call \in 1..MaxConcurrent :
        /\ in_flight[call].line = "done"
        /\ in_flight[call].overlapped
        /\ in_flight[call].returned.status_code = 200

(***************************************************************************)
(* Properties of the seeded data                                           *)
(***************************************************************************)
\* C17: every record of the catalog has a positive product_id that no other
\* record has, a price that is strictly positive and a whole number of
\* cents (two fractional digits), and one of the five categories
CatalogRecordsWellFormed ==
    /\ \A k \in 1..Len(_PRODUCTS_DATABASE) :
           /\ _PRODUCTS_DATABASE[k].product_id \in Nat \ {0}
           /\ _PRODUCTS_DATABASE[k].product_price_usd \in Nat \ {0}
           /\ _PRODUCTS_DATABASE[k].product_category \in ProductCategory
    /\ \A k, l \in 1..Len(_PRODUCTS_DATABASE) :
           k # l => _PRODUCTS_DATABASE[k].product_id
                        # _PRODUCTS_DATABASE[l].product_id

\* C17 witness: the catalog holds the 30 seeded records, every category
\* among them
SeededCatalogInPlace ==
    /\ Len(_PRODUCTS_DATABASE) = 30
    /\ {_PRODUCTS_DATABASE[k].product_category :
            k \in 1..Len(_PRODUCTS_DATABASE)} = ProductCategory

\* C18: the smallest price of the catalog is 5.99 and the largest 499.99
PricesRangeFrom599To49999 ==
    LET prices == {_PRODUCTS_DATABASE[k].product_price_usd :
                       k \in 1..Len(_PRODUCTS_DATABASE)}
    IN  /\ 599 \in prices
        /\ 49999 \in prices
        /\ \A price \in prices : 599 <= price /\ price <= 49999

(***************************************************************************)
(* Properties of the logging                                               *)
(***************************************************************************)
\* C19: the configured level is the minimum level written: a call of a
\* StructuredLogger below the level of the root logger writes nothing to
\* stdout, so no line on stdout is below that level
NothingBelowConfiguredLevel ==
    \A i \in 1..Len(stdout) :
        LogLevel[stdout[i].level] >= root_logger.level

\* C20: a request to the products endpoint logs api_request_received, then
\* retrieving_all_products, then products_retrieved_successfully, then
\* api_response_prepared; the last is logged before the response is
\* returned and its products_count is the total_count of the response
RequestLogsInOrder ==
    \A call \in 1..MaxConcurrent :
        LET logged == in_flight[call].logged
            order  == <<"api_request_received",
                        "retrieving_all_products",
                        "products_retrieved_successfully",
                        "api_response_prepared">>
        IN  /\ Len(logged) <= Len(order)
            /\ \A i \in 1..Len(logged) : logged[i].message = order[i]
            /\ in_flight[call].line = "done" =>
                   /\ Len(logged) = Len(order)
                   /\ logged[Len(order)].extra_fields.products_count
                          = in_flight[call].returned.body.total_count

\* C20 witness: a request has returned with its four events logged
RequestReturnedAfterLogging ==
    \E call \in 1..MaxConcurrent :
        /\ in_flight[call].line = "done"
        /\ Len(in_flight[call].logged) = 4
        /\ in_flight[call].returned.status_code = 200

\* C21: however many times setup_logging has been called, the root logger
\* has one handler, and a single call of a StructuredLogger at an enabled
\* level (the one call health_check makes) writes exactly one line
SingleCallWritesOneLine ==
    /\ Len(root_logger.handlers) = 1
    /\ (/\ stdout # <<>>
        /\ stdout[1].message = "health_check_request"
        /\ LogLevel[stdout[1].level] >= root_logger.level) =>
           Len(stdout) = 1

====
